---------------------------- MODULE Spec2Model ----------------------------
(***************************************************************************)
(* The dojo budgeting ledger: the Budget aggregate (domain/mod.rs), its    *)
(* three balance formulas, and the HTTP handlers of main.rs that share one *)
(* Budget behind Arc<Mutex<Budget>>.                                       *)
(*                                                                         *)
(* Records carry the fields the code reads.  The text fields (name, date,  *)
(* payee, memo, status) and the ids of transactions and transfers are      *)
(* stored and cloned but never read by any formula; they are left out.     *)
(* Money is f64 in the source; the amounts drawn here are small integers,  *)
(* on which f64 addition and subtraction are exact.                        *)
(*                                                                         *)
(* Two specifications:                                                     *)
(*   Spec      every create handler runs as one step (lock, push, unlock); *)
(*             wide payload sets, used for the ledger and balance claims.  *)
(*   SpecConc  handlers are tasks that receive a request, acquire the      *)
(*             mutex, run their body and drop the guard, interleaved.      *)
(***************************************************************************)
EXTENDS Integers, Sequences, FiniteSets

\* Largest total number of records the serial specification inserts.
MaxRecords == 3
\* Number of concurrently running handler tasks in SpecConc.
NumHandlers == 3

\* Uuid: 0 stands for Uuid::nil(), the others for values of Uuid::new_v4().
Uuid == {0, 1}
\* Option<Uuid>
None == <<>>
Some(x) == <<x>>
OptionUuid == {None} \cup {Some(u) : u \in Uuid}
\* f64 payload values drawn for starting_balance, inflow/outflow and amount.
Balance == {0, 1}
Amount == {0, 1}
TransferAmount == {0, 1}

Account == [id : Uuid, starting_balance : Balance]
Category == [id : Uuid]
Transaction ==
    [account_id : Uuid, category_id : OptionUuid, inflow : Amount, outflow : Amount]
CategoryTransfer ==
    [from_category_id : Uuid, to_category_id : Uuid, amount : TransferAmount]
AccountTransfer ==
    [from_account_id : Uuid, to_account_id : Uuid, amount : TransferAmount]

VARIABLES
    system_available_category_id,   \* Budget.system_available_category_id
    accounts,                       \* Budget.accounts
    categories,                     \* Budget.categories
    transactions,                   \* Budget.transactions
    category_transfers,             \* Budget.category_transfers
    account_transfers,              \* Budget.account_transfers
    lock,                           \* the Mutex: the set of tasks holding a guard
    pc,                             \* pc[h]: where handler task h is
    req,                            \* req[h]: the request task h serves
    resp                            \* resp[h]: the value task h returns

budget == <<system_available_category_id, accounts, categories, transactions,
            category_transfers, account_transfers>>
tasks == <<lock, pc, req, resp>>
vars == <<system_available_category_id, accounts, categories, transactions,
          category_transfers, account_transfers, lock, pc, req, resp>>

Handlers == 1 .. NumHandlers

----------------------------------------------------------------------------
\* Balance engine (domain/mod.rs)

\* for tx in self.transactions.iter().filter(|t| t.category_id == Some(cat))
RECURSIVE category_tx_loop(_, _, _)
category_tx_loop(txs, cat, balance) ==
    IF txs = <<>> THEN balance
    ELSE LET tx == Head(txs) IN
         category_tx_loop(Tail(txs), cat,
            IF tx.category_id = Some(cat)
            THEN balance + (tx.inflow - tx.outflow)
            ELSE balance)

\* for tr in &self.category_transfers { if to == cat {+=}; if from == cat {-=} }
RECURSIVE category_transfer_loop(_, _, _)
category_transfer_loop(trs, cat, balance) ==
    IF trs = <<>> THEN balance
    ELSE LET tr == Head(trs)
             b1 == IF tr.to_category_id = cat THEN balance + tr.amount ELSE balance
             b2 == IF tr.from_category_id = cat THEN b1 - tr.amount ELSE b1
         IN category_transfer_loop(Tail(trs), cat, b2)

\* Mutant: the transaction loop adds inflow + outflow.
RECURSIVE category_tx_loop_abs(_, _, _)
category_tx_loop_abs(txs, cat, balance) ==
    IF txs = <<>> THEN balance
    ELSE LET tx == Head(txs) IN
         category_tx_loop_abs(Tail(txs), cat,
            IF tx.category_id = Some(cat)
            THEN balance + (tx.inflow + tx.outflow)
            ELSE balance)

category_balance_abs(cat) ==
    category_transfer_loop(category_transfers, cat,
                           category_tx_loop_abs(transactions, cat, 0))

\* Mutant: the transfer loop credits the receiver but never debits the sender.
RECURSIVE category_transfer_loop_credit_only(_, _, _)
category_transfer_loop_credit_only(trs, cat, balance) ==
    IF trs = <<>> THEN balance
    ELSE LET tr == Head(trs) IN
         category_transfer_loop_credit_only(Tail(trs), cat,
            IF tr.to_category_id = cat THEN balance + tr.amount ELSE balance)

category_balance_credit_only(cat) ==
    category_transfer_loop_credit_only(category_transfers, cat,
                                       category_tx_loop(transactions, cat, 0))

\* Budget::category_balance
category_balance(cat) ==
    category_transfer_loop(category_transfers, cat,
                           category_tx_loop(transactions, cat, 0))

\* Budget::available_to_budget
available_to_budget == category_balance(system_available_category_id)

\* self.accounts.iter().find(|a| a.id == acc)
RECURSIVE find_account(_, _)
find_account(accs, acc) ==
    IF accs = <<>> THEN None
    ELSE IF Head(accs).id = acc THEN Some(Head(accs))
    ELSE find_account(Tail(accs), acc)

\* for tx in self.transactions.iter().filter(|t| t.account_id == acc)
RECURSIVE account_tx_loop(_, _, _)
account_tx_loop(txs, acc, balance) ==
    IF txs = <<>> THEN balance
    ELSE LET tx == Head(txs) IN
         account_tx_loop(Tail(txs), acc,
            IF tx.account_id = acc
            THEN balance + (tx.inflow - tx.outflow)
            ELSE balance)

\* .map(|a| a.starting_balance).unwrap_or(0.0)
starting_of(found) == IF found = None THEN 0 ELSE found[1].starting_balance

\* Mutant: account transfers are folded into the account balance.
RECURSIVE account_transfer_loop(_, _, _)
account_transfer_loop(trs, acc, balance) ==
    IF trs = <<>> THEN balance
    ELSE LET tr == Head(trs)
             b1 == IF tr.to_account_id = acc THEN balance + tr.amount ELSE balance
             b2 == IF tr.from_account_id = acc THEN b1 - tr.amount ELSE b1
         IN account_transfer_loop(Tail(trs), acc, b2)

account_balance_with_transfers(acc) ==
    account_transfer_loop(account_transfers, acc,
        account_tx_loop(transactions, acc, starting_of(find_account(accounts, acc))))

\* Mutant: find() without its id predicate, so the first account always matches.
account_balance_first_account(acc) ==
    account_tx_loop(transactions, acc,
        IF accounts = <<>> THEN 0 ELSE Head(accounts).starting_balance)

\* Budget::account_balance
account_balance(acc) ==
    account_tx_loop(transactions, acc, starting_of(find_account(accounts, acc)))

----------------------------------------------------------------------------
\* Construction

\* Budget::default(): nil id, five empty Vecs; main overrides the id with a
\* fresh Uuid::new_v4().  No Category is pushed by either.
BudgetInit ==
    /\ system_available_category_id \in Uuid
    /\ accounts = <<>>
    /\ categories = <<>>
    /\ transactions = <<>>
    /\ category_transfers = <<>>
    /\ account_transfers = <<>>

\* Arc::new(Mutex::new(budget)); no request has arrived yet.
Init ==
    /\ BudgetInit
    /\ lock = {}
    /\ pc = [h \in Handlers |-> "idle"]
    /\ req = [h \in Handlers |-> [op |-> "none", payload |-> None]]
    /\ resp = [h \in Handlers |-> None]

----------------------------------------------------------------------------
\* The handlers' effects on the Budget (the statement run under the guard)

\* Mutant: insert(0, payload) instead of push(payload).
accounts_push_front(payload) ==
    /\ accounts' = <<payload>> \o accounts
    /\ UNCHANGED <<system_available_category_id, categories, transactions,
                   category_transfers, account_transfers>>

\* budget.accounts.push(payload)
accounts_push(payload) ==
    /\ accounts' = Append(accounts, payload)
    /\ UNCHANGED <<system_available_category_id, categories, transactions,
                   category_transfers, account_transfers>>

\* budget.categories.push(payload)
categories_push(payload) ==
    /\ categories' = Append(categories, payload)
    /\ UNCHANGED <<system_available_category_id, accounts, transactions,
                   category_transfers, account_transfers>>

\* budget.transactions.push(payload)
transactions_push(payload) ==
    /\ transactions' = Append(transactions, payload)
    /\ UNCHANGED <<system_available_category_id, accounts, categories,
                   category_transfers, account_transfers>>

\* budget.category_transfers.push(payload)
category_transfers_push(payload) ==
    /\ category_transfers' = Append(category_transfers, payload)
    /\ UNCHANGED <<system_available_category_id, accounts, categories,
                   transactions, account_transfers>>

\* budget.account_transfers.push(payload)
account_transfers_push(payload) ==
    /\ account_transfers' = Append(account_transfers, payload)
    /\ UNCHANGED <<system_available_category_id, accounts, categories,
                   transactions, category_transfers>>

Records ==
    Len(accounts) + Len(categories) + Len(transactions)
        + Len(category_transfers) + Len(account_transfers)

----------------------------------------------------------------------------
\* Serial specification: each create handler, start to end, is one step.

create_account_serial ==
    /\ Records < MaxRecords
    /\ \E payload \in Account : accounts_push(payload)
    /\ UNCHANGED tasks

create_category_serial ==
    /\ Records < MaxRecords
    /\ \E payload \in Category : categories_push(payload)
    /\ UNCHANGED tasks

create_transaction_serial ==
    /\ Records < MaxRecords
    /\ \E payload \in Transaction : transactions_push(payload)
    /\ UNCHANGED tasks

create_category_transfer_serial ==
    /\ Records < MaxRecords
    /\ \E payload \in CategoryTransfer : category_transfers_push(payload)
    /\ UNCHANGED tasks

create_account_transfer_serial ==
    /\ Records < MaxRecords
    /\ \E payload \in AccountTransfer : account_transfers_push(payload)
    /\ UNCHANGED tasks

Next ==
    \/ create_account_serial
    \/ create_category_serial
    \/ create_transaction_serial
    \/ create_category_transfer_serial
    \/ create_account_transfer_serial

Spec == Init /\ [][Next]_vars

----------------------------------------------------------------------------
\* Concurrent specification: handler tasks sharing Arc<Mutex<Budget>>.
\* pc[h]: "idle" (no request yet), "received" (dispatched, before lock()),
\* "locked" (holds the guard, body not run), "ran" (body run, guard still
\* alive), "done" (returned: guard dropped, response handed to axum).

\* The requests the concurrent tasks are given.
ConcAccount == {a \in Account : a.id = 1}
ConcCategory == {c \in Category : c.id = 1}
ConcTransaction ==
    {t \in Transaction :
        t.account_id = 1 /\ t.category_id = Some(1) /\ t.inflow = 1 /\ t.outflow = 0}
ConcCategoryTransfer ==
    {t \in CategoryTransfer :
        t.from_category_id = 0 /\ t.to_category_id = 1 /\ t.amount = 1}
ConcAccountTransfer ==
    {t \in AccountTransfer :
        t.from_account_id = 0 /\ t.to_account_id = 1 /\ t.amount = 1}

ReadOps ==
    {"list_accounts", "list_categories", "list_transactions",
     "list_category_transfers", "list_account_transfers",
     "get_dashboard", "get_available"}

Request(op, payload) == [op |-> op, payload |-> payload]

ConcRequests ==
    {Request("create_account", p) : p \in ConcAccount}
    \cup {Request("create_category", p) : p \in ConcCategory}
    \cup {Request("create_transaction", p) : p \in ConcTransaction}
    \cup {Request("create_category_transfer", p) : p \in ConcCategoryTransfer}
    \cup {Request("create_account_transfer", p) : p \in ConcAccountTransfer}
    \cup {Request(op, None) : op \in ReadOps}

\* The unit value a create handler returns.
Unit == <<>>

\* format!("{:.2}", x) of an integral x: sign, integer digits, two zero decimals.
format_2(x) ==
    [negative |-> x < 0, integer |-> IF x < 0 THEN -x ELSE x, decimals |-> <<0, 0>>]

\* Dashboard { available_to_budget: String }
Dashboard(text) == [available_to_budget |-> text]

\* The router hands a request to a handler task; tasks are numbered in the
\* order their requests arrive.
route(h) ==
    /\ pc[h] = "idle"
    /\ \A g \in Handlers : g < h => pc[g] # "idle"
    /\ \E r \in ConcRequests : req' = [req EXCEPT ![h] = r]
    /\ pc' = [pc EXCEPT ![h] = "received"]
    /\ UNCHANGED <<budget, lock, resp>>

\* Mutant: lock() that does not wait for the holder to drop its guard.
mutex_lock_no_wait(h) ==
    /\ pc[h] = "received"
    /\ lock' = lock \cup {h}
    /\ pc' = [pc EXCEPT ![h] = "locked"]
    /\ UNCHANGED <<budget, req, resp>>

\* state.lock().unwrap(): blocks while another task holds the guard.
mutex_lock(h) ==
    /\ pc[h] = "received"
    /\ lock = {}
    /\ lock' = {h}
    /\ pc' = [pc EXCEPT ![h] = "locked"]
    /\ UNCHANGED <<budget, req, resp>>

\* The body of a handler, run while holding the guard, answering with value.
Body(h, op, value) ==
    /\ pc[h] = "locked"
    /\ req[h].op = op
    /\ resp' = [resp EXCEPT ![h] = value]
    /\ pc' = [pc EXCEPT ![h] = "ran"]
    /\ UNCHANGED <<lock, req>>

create_account(h) ==
    Body(h, "create_account", Unit) /\ accounts_push(req[h].payload)

list_accounts(h) ==
    Body(h, "list_accounts", accounts) /\ UNCHANGED budget

create_category(h) ==
    Body(h, "create_category", Unit) /\ categories_push(req[h].payload)

list_categories(h) ==
    Body(h, "list_categories", categories) /\ UNCHANGED budget

create_transaction(h) ==
    Body(h, "create_transaction", Unit) /\ transactions_push(req[h].payload)

list_transactions(h) ==
    Body(h, "list_transactions", transactions) /\ UNCHANGED budget

create_category_transfer(h) ==
    Body(h, "create_category_transfer", Unit)
    /\ category_transfers_push(req[h].payload)

list_category_transfers(h) ==
    Body(h, "list_category_transfers", category_transfers) /\ UNCHANGED budget

create_account_transfer(h) ==
    Body(h, "create_account_transfer", Unit)
    /\ account_transfers_push(req[h].payload)

list_account_transfers(h) ==
    Body(h, "list_account_transfers", account_transfers) /\ UNCHANGED budget

get_dashboard(h) ==
    Body(h, "get_dashboard", Dashboard(format_2(available_to_budget)))
    /\ UNCHANGED budget

get_available(h) ==
    Body(h, "get_available", available_to_budget) /\ UNCHANGED budget

\* The handler returns: its MutexGuard goes out of scope.
guard_drop(h) ==
    /\ pc[h] = "ran"
    /\ lock' = lock \ {h}
    /\ pc' = [pc EXCEPT ![h] = "done"]
    /\ UNCHANGED <<budget, req, resp>>

Route == \E h \in Handlers : route(h)
MutexLock == \E h \in Handlers : mutex_lock(h)
CreateAccount == \E h \in Handlers : create_account(h)
ListAccounts == \E h \in Handlers : list_accounts(h)
CreateCategory == \E h \in Handlers : create_category(h)
ListCategories == \E h \in Handlers : list_categories(h)
CreateTransaction == \E h \in Handlers : create_transaction(h)
ListTransactions == \E h \in Handlers : list_transactions(h)
CreateCategoryTransfer == \E h \in Handlers : create_category_transfer(h)
ListCategoryTransfers == \E h \in Handlers : list_category_transfers(h)
CreateAccountTransfer == \E h \in Handlers : create_account_transfer(h)
ListAccountTransfers == \E h \in Handlers : list_account_transfers(h)
GetDashboard == \E h \in Handlers : get_dashboard(h)
GetAvailable == \E h \in Handlers : get_available(h)
GuardDrop == \E h \in Handlers : guard_drop(h)

NextConc ==
    \/ Route
    \/ MutexLock
    \/ CreateAccount
    \/ ListAccounts
    \/ CreateCategory
    \/ ListCategories
    \/ CreateTransaction
    \/ ListTransactions
    \/ CreateCategoryTransfer
    \/ ListCategoryTransfers
    \/ CreateAccountTransfer
    \/ ListAccountTransfers
    \/ GetDashboard
    \/ GetAvailable
    \/ GuardDrop

SpecConc == Init /\ [][NextConc]_vars

----------------------------------------------------------------------------
\* Vocabulary of the properties

LastOf(seq) == seq[Len(seq)]
Net(tx) == tx.inflow - tx.outflow

AccountIds == {accounts[i].id : i \in DOMAIN accounts}
CategoryIds == {categories[i].id : i \in DOMAIN categories}

\* Sum of category_balance over the entries of the categories collection.
SumCategoryBalances ==
    LET sum[n \in 0 .. Len(categories)] ==
            IF n = 0 THEN 0
            ELSE sum[n - 1] + category_balance(categories[n].id)
    IN sum[Len(categories)]

\* Sum of account_balance over the entries of the accounts collection.
SumAccountBalances ==
    LET sum[n \in 0 .. Len(accounts)] ==
            IF n = 0 THEN 0
            ELSE sum[n - 1] + account_balance(accounts[n].id)
    IN sum[Len(accounts)]

\* Net amount of the transactions that carry account id a, summed by position.
NetOfAccount(a) ==
    LET sum[n \in 0 .. Len(transactions)] ==
            IF n = 0 THEN 0
            ELSE sum[n - 1]
                 + (IF transactions[n].account_id = a
                    THEN Net(transactions[n]) ELSE 0)
    IN sum[Len(transactions)]

CategoryReferenced(c) ==
    \/ \E i \in DOMAIN transactions : transactions[i].category_id = Some(c)
    \/ \E i \in DOMAIN category_transfers :
          \/ category_transfers[i].from_category_id = c
          \/ category_transfers[i].to_category_id = c

NoTransactionsOrTransfers ==
    /\ transactions = <<>>
    /\ category_transfers = <<>>
    /\ account_transfers = <<>>

----------------------------------------------------------------------------
\* C1 (additivity): whenever a Transaction t with category_id = Some(c) is
\* pushed, category_balance(c) after the push equals category_balance(c) before
\* it plus t.inflow - t.outflow.
C1_Additivity ==
    [][transactions' # transactions =>
         LET t == LastOf(transactions') IN
         \A c \in Uuid :
            t.category_id = Some(c) =>
               category_balance(c)' = category_balance(c) + (t.inflow - t.outflow)
      ]_vars

\* A categorized transaction with net -1 was pushed onto a category that already
\* received a transfer, bringing it back to 0.
C1_Witness ==
    /\ transactions # <<>>
    /\ category_transfers # <<>>
    /\ \E c \in Uuid :
          /\ LastOf(transactions).category_id = Some(c)
          /\ Net(LastOf(transactions)) = -1
          /\ LastOf(category_transfers).to_category_id = c
          /\ LastOf(category_transfers).from_category_id # c
          /\ LastOf(category_transfers).amount = 1
          /\ category_balance(c) = 0

\* C2 as amended (transfer conservation): whenever a CategoryTransfer of amount
\* from A to B is pushed, category_balance(A) + category_balance(B) is unchanged;
\* if A # B, category_balance(A) drops by amount and category_balance(B) rises
\* by amount (so available_to_budget drops by amount when A is the system
\* available category); if A = B, category_balance(A) is unchanged.
C2_TransferConservation ==
    [][category_transfers' # category_transfers =>
         LET tr == LastOf(category_transfers') IN
         \A A, B \in Uuid :
            (tr.from_category_id = A /\ tr.to_category_id = B) =>
            /\ category_balance(A)' + category_balance(B)'
                  = category_balance(A) + category_balance(B)
            /\ A # B =>
                  /\ category_balance(A)' = category_balance(A) - tr.amount
                  /\ category_balance(B)' = category_balance(B) + tr.amount
                  /\ A = system_available_category_id =>
                        available_to_budget' = available_to_budget - tr.amount
            /\ A = B => category_balance(A)' = category_balance(A)
      ]_vars

\* C2 as stated: for every pushed CategoryTransfer from A to B,
\* category_balance(A) drops by amount, category_balance(B) rises by amount and
\* their sum is unchanged; available_to_budget drops by amount when A is the
\* system available category.
C2_Original ==
    [][category_transfers' # category_transfers =>
         LET tr == LastOf(category_transfers') IN
         \A A, B \in Uuid :
            (tr.from_category_id = A /\ tr.to_category_id = B) =>
            /\ category_balance(A)' = category_balance(A) - tr.amount
            /\ category_balance(B)' = category_balance(B) + tr.amount
            /\ category_balance(A)' + category_balance(B)'
                  = category_balance(A) + category_balance(B)
            /\ A = system_available_category_id =>
                  available_to_budget' = available_to_budget - tr.amount
      ]_vars

\* A transfer of 1 out of the system available category into another category
\* was pushed after a transaction had funded the available category.
C2_Witness ==
    /\ category_transfers # <<>>
    /\ transactions # <<>>
    /\ LET tr == LastOf(category_transfers) IN
          /\ tr.from_category_id = system_available_category_id
          /\ tr.to_category_id # tr.from_category_id
          /\ tr.amount = 1
          /\ LastOf(transactions).category_id = Some(tr.from_category_id)
          /\ Net(LastOf(transactions)) = 1
          /\ category_balance(tr.from_category_id) = 0
          /\ category_balance(tr.to_category_id) = 1

\* C3 (baseline): in a Budget with no transactions and no transfers,
\* available_to_budget is 0 and every Account in the accounts collection has
\* account_balance(its id) equal to its own starting_balance.
C3_Baseline ==
    NoTransactionsOrTransfers =>
       /\ available_to_budget = 0
       /\ \A i \in DOMAIN accounts :
             account_balance(accounts[i].id) = accounts[i].starting_balance

\* C4: the categories collection holds exactly one Category whose id is
\* system_available_category_id, in every state from construction on.
C4_AvailableExistsOnce ==
    Cardinality({i \in DOMAIN categories :
                    categories[i].id = system_available_category_id}) = 1

\* C5 (conservation in the category domain): the sum of category_balance over
\* the categories of the Budget is never changed by pushing a CategoryTransfer,
\* and whenever it changes a Transaction was pushed and the change is that
\* transaction's inflow - outflow.
C5_CategorySumConservation ==
    [][/\ category_transfers' # category_transfers =>
             SumCategoryBalances' = SumCategoryBalances
       /\ SumCategoryBalances' # SumCategoryBalances =>
             /\ transactions' # transactions
             /\ SumCategoryBalances' - SumCategoryBalances
                   = Net(LastOf(transactions'))
      ]_vars

\* C6: pushing an AccountTransfer leaves account_balance and category_balance
\* of every id unchanged, and with them the sum of account_balance over the
\* accounts collection.
C6_AccountTransferFrame ==
    [][account_transfers' # account_transfers =>
         /\ \A u \in Uuid :
               /\ account_balance(u)' = account_balance(u)
               /\ category_balance(u)' = category_balance(u)
         /\ SumAccountBalances' = SumAccountBalances
      ]_vars

\* An AccountTransfer of 1 was pushed out of an existing account whose balance,
\* starting balance 1 plus a transaction of net 1, still reads 2.
C6_Witness ==
    /\ account_transfers # <<>>
    /\ transactions # <<>>
    /\ LET tr == LastOf(account_transfers) IN
          /\ tr.amount = 1
          /\ tr.from_account_id # tr.to_account_id
          /\ tr.from_account_id \in AccountIds
          /\ account_balance(tr.from_account_id) = 2

\* C8 (referential integrity): every Transaction's account_id is the id of an
\* Account in accounts and its category_id, when present, the id of a Category
\* in categories; every CategoryTransfer's from/to ids are ids of Categories and
\* every AccountTransfer's from/to ids are ids of Accounts.
C8_ReferentialIntegrity ==
    /\ \A i \in DOMAIN transactions :
          /\ transactions[i].account_id \in AccountIds
          /\ transactions[i].category_id # None =>
                transactions[i].category_id[1] \in CategoryIds
    /\ \A i \in DOMAIN category_transfers :
          /\ category_transfers[i].from_category_id \in CategoryIds
          /\ category_transfers[i].to_category_id \in CategoryIds
    /\ \A i \in DOMAIN account_transfers :
          /\ account_transfers[i].from_account_id \in AccountIds
          /\ account_transfers[i].to_account_id \in AccountIds

\* C9 (missing ids degrade to zero): category_balance of an id no transaction
\* and no category transfer references is 0; account_balance of an id absent
\* from accounts is the net amount of the transactions carrying that account_id;
\* available_to_budget is 0 when nothing references the system available id.
C9_MissingIdsAreZero ==
    /\ \A c \in Uuid : ~CategoryReferenced(c) => category_balance(c) = 0
    /\ \A a \in Uuid :
          a \notin AccountIds =>
             account_balance(a) = NetOfAccount(a)
    /\ ~CategoryReferenced(system_available_category_id) =>
          available_to_budget = 0

\* An account with starting balance 1 exists, a transaction of net 1 names an
\* account id that is not in accounts, and some category id (also the system
\* available one, of which no Category was ever added) is unreferenced while
\* another one is referenced.
C9_Witness ==
    /\ accounts # <<>>
    /\ Head(accounts).starting_balance = 1
    /\ \E a \in Uuid :
          /\ a \notin AccountIds
          /\ account_balance(a) = 1
    /\ ~CategoryReferenced(system_available_category_id)
    /\ system_available_category_id \notin CategoryIds
    /\ \E c \in Uuid : CategoryReferenced(c) /\ category_balance(c) # 0

----------------------------------------------------------------------------
\* Vocabulary of the concurrency properties

Kinds ==
    {"account", "category", "transaction", "category_transfer", "account_transfer"}

CreateOp(k) ==
    CASE k = "account" -> "create_account"
      [] k = "category" -> "create_category"
      [] k = "transaction" -> "create_transaction"
      [] k = "category_transfer" -> "create_category_transfer"
      [] k = "account_transfer" -> "create_account_transfer"

ListOp(k) ==
    CASE k = "account" -> "list_accounts"
      [] k = "category" -> "list_categories"
      [] k = "transaction" -> "list_transactions"
      [] k = "category_transfer" -> "list_category_transfers"
      [] k = "account_transfer" -> "list_account_transfers"

Collection(k) ==
    CASE k = "account" -> accounts
      [] k = "category" -> categories
      [] k = "transaction" -> transactions
      [] k = "category_transfer" -> category_transfers
      [] k = "account_transfer" -> account_transfers

Payloads(k) ==
    CASE k = "account" -> ConcAccount
      [] k = "category" -> ConcCategory
      [] k = "transaction" -> ConcTransaction
      [] k = "category_transfer" -> ConcCategoryTransfer
      [] k = "account_transfer" -> ConcAccountTransfer

\* Task h has run the body of a handler of operation op.
Executed(h, op) == pc[h] \in {"ran", "done"} /\ req[h].op = op
\* Task h runs its body in this step.
RunsBody(h) == pc[h] = "locked" /\ pc'[h] = "ran"
\* Task w returned from a create handler: its guard is dropped.
Released(w, k) == pc[w] = "done" /\ req[w].op = CreateOp(k)

Count(seq, x) == Cardinality({i \in DOMAIN seq : seq[i] = x})

\* What the request r adds to the balance of category c.
Contribution(r, c) ==
    IF r.op = "create_transaction"
    THEN (IF r.payload.category_id = Some(c) THEN Net(r.payload) ELSE 0)
    ELSE IF r.op = "create_category_transfer"
    THEN (IF r.payload.to_category_id = c THEN r.payload.amount ELSE 0)
         - (IF r.payload.from_category_id = c THEN r.payload.amount ELSE 0)
    ELSE 0

\* The available-to-budget figure the returned writers account for.
ReleasedAvailable ==
    LET sum[n \in 0 .. NumHandlers] ==
            IF n = 0 THEN 0
            ELSE sum[n - 1]
                 + (IF pc[n] = "done"
                    THEN Contribution(req[n], system_available_category_id)
                    ELSE 0)
    IN sum[NumHandlers]

----------------------------------------------------------------------------
\* C7 (list after adds): each collection holds as many elements as create
\* bodies of its kind have run; a step changes a collection only by a create
\* body of its kind appending exactly its payload at the end (older elements
\* keep their value and position, creates of other kinds leave it alone); and a
\* list body returns the collection as it stands, leaving it unchanged.
C7_ListAfterAdds ==
    /\ [](\A k \in Kinds :
             Len(Collection(k))
                = Cardinality({h \in Handlers : Executed(h, CreateOp(k))}))
    /\ [][\A k \in Kinds :
             /\ \/ Collection(k)' = Collection(k)
                \/ \E h \in Handlers :
                      /\ RunsBody(h)
                      /\ req[h].op = CreateOp(k)
                      /\ Collection(k)' = Append(Collection(k), req[h].payload)
             /\ \A h \in Handlers :
                   (RunsBody(h) /\ req[h].op = CreateOp(k)) =>
                      \A j \in Kinds \ {k} : Collection(j)' = Collection(j)
             /\ \A h \in Handlers :
                   (RunsBody(h) /\ req[h].op = ListOp(k)) =>
                      /\ resp'[h] = Collection(k)
                      /\ Collection(k)' = Collection(k)
         ]_vars

\* Two accounts with the same id and different starting balances were added,
\* a category was not, and a list of the accounts then returned both accounts
\* in the order they were added.
C7_Witness ==
    \E h \in Handlers :
       /\ pc[h] = "done"
       /\ req[h].op = "list_accounts"
       /\ Len(resp[h]) = 2
       /\ resp[h][1].id = resp[h][2].id
       /\ resp[h][1].starting_balance = 1
       /\ resp[h][2].starting_balance = 0
       /\ resp[h] = accounts

\* C10 (mutual exclusion and atomic handlers): at most one task holds the
\* guard, and it is the task inside its critical section; each collection
\* holds exactly the payloads of the create bodies run so far, each as often as
\* it was submitted (no add is lost or doubled); and a read body returns exactly
\* what the writers that already dropped their guard inserted: a list returns
\* their payloads, get_available and get_dashboard the balance they add up to.
C10_MutexAtomicHandlers ==
    /\ [](/\ Cardinality({h \in Handlers : pc[h] \in {"locked", "ran"}}) <= 1
          /\ lock = {h \in Handlers : pc[h] \in {"locked", "ran"}})
    /\ [](\A k \in Kinds : \A p \in Payloads(k) :
             Count(Collection(k), p)
                = Cardinality({h \in Handlers :
                                  Executed(h, CreateOp(k)) /\ req[h].payload = p}))
    /\ [][\A h \in Handlers :
             RunsBody(h) =>
                /\ \A k \in Kinds :
                      req[h].op = ListOp(k) =>
                         /\ Len(resp'[h])
                               = Cardinality({w \in Handlers : Released(w, k)})
                         /\ \A p \in Payloads(k) :
                               Count(resp'[h], p)
                                  = Cardinality({w \in Handlers :
                                       Released(w, k) /\ req[w].payload = p})
                /\ req[h].op = "get_available" => resp'[h] = ReleasedAvailable
                /\ req[h].op = "get_dashboard" =>
                      resp'[h] = Dashboard(format_2(ReleasedAvailable))
         ]_vars

\* A writer of a transaction on the system available category has returned, a
\* get_available that locked afterwards has computed 1 and still holds the
\* guard, and a third task waits for the lock.
C10_Witness ==
    \E w, r, b \in Handlers :
       /\ pc[w] = "done"
       /\ req[w].op = "create_transaction"
       /\ req[w].payload.category_id = Some(system_available_category_id)
       /\ pc[r] = "ran"
       /\ req[r].op = "get_available"
       /\ resp[r] = 1
       /\ lock = {r}
       /\ pc[b] = "received"
       /\ req[b].op = "create_category_transfer"

=============================================================================
